---- MODULE Spec2Model ----
(***************************************************************************)
(* A model of the pickle stream interpreter of pickle-rs (src/src/pickle.rs)*)
(* as a state machine: the fields of Unpickler, the reader handed to load,  *)
(* and one action per opcode handler.                                      *)
(*                                                                         *)
(* The reader is an input.  Its content is decided as it is read: `file`   *)
(* records how many bytes this load has consumed (pos), whether the reader *)
(* has run out of bytes (eof), how many bytes all loads together have      *)
(* consumed (total, which MaxBytes bounds) and which of the documented     *)
(* example streams agree with every byte consumed so far (scen).           *)
(***************************************************************************)
EXTENDS Integers, Sequences, FiniteSets, TLC

VARIABLES stack, metastack, memo, proto, file, op, opPos, ret, entry, loads, wrapped

vars == <<stack, metastack, memo, proto, file, op, opPos, ret, entry, loads, wrapped>>

unpickler == <<stack, metastack, memo, proto>>

(***************************************************************************)
(* Bounds of the model.                                                    *)
(***************************************************************************)
\* bytes that all the readers handed to load deliver together
MaxBytes == 5
\* bytes of a line before its LF that are enumerated
MaxLine == 2
\* calls of load on the one Unpickler
MaxLoads == 2
\* values on the operand stack before a MARK, and items after it
MaxPrefix == 2
MaxItems == 3
\* bytes of a text line handed to STRING, PERSID or UNICODE
MaxText == 4
\* pairs of a key and a value handed to DICT, or to SETITEM one by one
MaxPairs == 2
\* opcodes of a stream made of opcodes without payload
MaxOps == 4
\* entries of a HashMap or a HashSet handed to the wrappers
MaxEntries == 2
\* bytes of a stream that a load is followed on to its end
MaxStream == 8

(***************************************************************************)
(* Opcodes, pickle.rs:30-108.                                              *)
(***************************************************************************)
MARK == 40
STOP == 46
POP == 48
POP_MARK == 49
DUP == 50
FLOAT == 70
INT == 73
BININT == 74
BININT1 == 75
LONG == 76
BININT2 == 77
NONE == 78
PERSID == 80
BINPERSID == 81
REDUCE == 82
STRING_ == 83
BINSTRING == 84
SHORT_BINSTRING == 85
UNICODE == 86
BINUNICODE == 88
APPEND == 97
BUILD == 98
GLOBAL == 99
DICT == 100
EMPTY_DICT == 125
APPENDS == 101
GET == 103
BINGET == 104
INST == 105
LONG_BINGET == 106
LIST == 108
EMPTY_LIST == 93
OBJ == 111
PUT == 112
BINPUT == 113
LONG_BINPUT == 114
SETITEM == 115
TUPLE == 116
EMPTY_TUPLE == 41
SETITEMS == 117
BINFLOAT == 71
PROTO == 128
NEWOBJ == 129
EXT1 == 130
EXT2 == 131
EXT4 == 132
TUPLE1 == 133
TUPLE2 == 134
TUPLE3 == 135
NEWTRUE == 136
NEWFALSE == 137
LONG1 == 138
LONG4 == 139
BINBYTES == 66
SHORT_BINBYTES == 67
SHORT_BINUNICODE == 140
BINUNICODE8 == 141
BINBYTES8 == 142
EMPTY_SET == 143
ADDITEMS == 144
FROZENSET == 145
NEWOBJ_EX == 146
STACK_GLOBAL == 147
MEMOIZE == 148
FRAME == 149
BYTEARRAY8 == 150
NEXT_BUFFER == 151
READONLY_BUFFER == 152
HIGHEST_PROTOCOL == 5

\* the arms of the match in load_op, plus STOP, which load matches itself
Opcodes ==
  { MARK, STOP, POP, POP_MARK, DUP, FLOAT, INT, BININT, BININT1, LONG, BININT2,
    NONE, PERSID, BINPERSID, REDUCE, STRING_, BINSTRING, SHORT_BINSTRING,
    UNICODE, BINUNICODE, APPEND, BUILD, GLOBAL, DICT, EMPTY_DICT, APPENDS, GET,
    BINGET, INST, LONG_BINGET, LIST, EMPTY_LIST, OBJ, PUT, BINPUT, LONG_BINPUT,
    SETITEM, TUPLE, EMPTY_TUPLE, SETITEMS, BINFLOAT, PROTO, NEWOBJ, EXT1, EXT2,
    EXT4, TUPLE1, TUPLE2, TUPLE3, NEWTRUE, NEWFALSE, LONG1, LONG4, BINBYTES,
    SHORT_BINBYTES, SHORT_BINUNICODE, BINUNICODE8, BINBYTES8, EMPTY_SET,
    ADDITEMS, FROZENSET, NEWOBJ_EX, STACK_GLOBAL, MEMOIZE, FRAME, BYTEARRAY8,
    NEXT_BUFFER, READONLY_BUFFER }

LF == 10

(***************************************************************************)
(* The inputs that are enumerated.                                         *)
(***************************************************************************)
\* bytes read where an opcode is expected that are no opcode
UnknownOps == {0, 255}
\* bytes of a fixed-width or counted payload
PayloadBytes == {0, 1, 2, 42, 255}
\* bytes of a line before its LF: '0' '1' 'L' and the single quote
LineBytes == {48, 49, 76, 39}

\* the documented example streams (spec section 8, scenarios 1, 4, 5 and 6)
ExInt42 == <<128, 2, 75, 42, 46>>
ExSharedPair == <<128, 2, 75, 1, 75, 2, 134, 113, 0, 104, 0, 134, 46>>
ExMarkTuple == <<40, 75, 1, 75, 2, 75, 3, 116, 46>>
ExRecursive == <<128, 2, 93, 113, 0, 40, 104, 0, 101, 46>>

Examples == {ExInt42, ExSharedPair, ExMarkTuple, ExRecursive}

(***************************************************************************)
(* Values, as pickle.rs builds them (Value::Int(i32), Value::I128, ...),   *)
(* and errors.  Every value and error is a record [t, v].                  *)
(***************************************************************************)
Val(t, v) == [t |-> t, v |-> v]

VNone == Val("None", 0)
VBool(b) == Val("Bool", b)
VInt(i) == Val("Int", i)
VI128(i) == Val("I128", i)
VF64(f) == Val("F64", f)
VString(s) == Val("String", s)
VPersId(s) == Val("PersId", s)
VBinPersId(v) == Val("BinPersId", v)
VTuple(items) == Val("Tuple", items)
VDict(pairs) == Val("Dict", pairs)
VList(items) == Val("List", items)
VMemoRef(id) == Val("MemoRef", id)

\* Error::Syntax(code), Error::Io(kind), and the errors `?` converts
Syntax(code, arg) == Val("Syntax", Val(code, arg))
Io(kind) == Val("Io", Val(kind, 0))
\* Error::Eval(ErrorCode, usize): an error code with a position
Eval(code, arg, pos) == Val("Eval", [code |-> Val(code, arg), pos |-> pos])
Converted(from) == Val(from, 0)

Running == [st |-> "running", v |-> VNone]
Idle == [st |-> "idle", v |-> VNone]
Ok(v) == [st |-> "Ok", v |-> v]
Err(e) == [st |-> "Err", v |-> e]
Panic(kind, what) == [st |-> "panic", v |-> Val(kind, what)]

EmptyMemo == [k \in {} |-> VNone]

Last(s) == s[Len(s)]
Front(s) == SubSeq(s, 1, Len(s) - 1)
Min(a, b) == IF a < b THEN a ELSE b

SeqsOfLen(S, lo, hi) == UNION { [1..k -> S] : k \in lo..hi }

(***************************************************************************)
(* The reader (impl BufRead).                                              *)
(***************************************************************************)
\* the example stream s holds the bytes bs after its first p bytes
Agrees(s, p, bs) ==
  \A i \in 1..Len(bs) : p + i <= Len(s) /\ s[p + i] = bs[i]

\* the reader after it delivered the bytes bs, with e telling whether that
\* exhausted it
Take(f, bs, e) ==
  [pos |-> f.pos + Len(bs), eof |-> e, total |-> f.total + Len(bs),
   scen |-> {s \in f.scen : Agrees(s, f.pos, bs)}, fixed |-> FALSE, data |-> <<>>]

Room(f) == MaxBytes - f.total

\* whether the reader can be exhausted once k more bytes are delivered
NewEof(f, k) == IF k >= Room(f) THEN {TRUE} ELSE BOOLEAN

\* a reader handed to load: nothing consumed yet.  The reader of the first
\* load may be empty; the readers of later loads hold at least one byte
NewFile(total, first) ==
  { [pos |-> 0, eof |-> e, total |-> total, scen |-> Examples,
     fixed |-> FALSE, data |-> <<>>] :
      e \in (IF total >= MaxBytes THEN {TRUE} ELSE BOOLEAN) \ (IF first THEN {} ELSE {TRUE}) }

\* no opcode read yet
NoOp == 0 - 1

NoFile ==
  [pos |-> 0, eof |-> TRUE, total |-> 0, scen |-> {}, fixed |-> FALSE, data |-> <<>>]

\* a reader over the bytes of the slice s, as BufReader over a file or &[u8]:
\* what it holds is known from the start
FixedFile(s) ==
  [pos |-> 0, eof |-> s = <<>>, total |-> 0, scen |-> {e \in Examples : e = s},
   fixed |-> TRUE, data |-> s]

\* bytes a reader over a slice still holds, and that reader n bytes further
Left(f) == Len(f.data) - f.pos

FixedTake(f, n) == [f EXCEPT !.pos = f.pos + n, !.eof = (f.pos + n = Len(f.data))]

\* the offset of the first LF at or after offset i of the slice, or 0
RECURSIVE FindLF(_, _)
FindLF(d, i) ==
  IF i > Len(d) THEN 0 ELSE IF d[i] = LF THEN i ELSE FindLF(d, i + 1)

\* a count of bytes no reader can deliver in full
Cap(f) == IF f.fixed THEN Len(f.data) + 1 ELSE MaxBytes + 1

\* file.read_exact(&mut buf) with buf of n bytes, the bytes drawn from S:
\* either all n bytes, or what is left before the end and an error
ReadExact(f, n, S) ==
  IF n = 0 THEN { [ok |-> TRUE, bytes |-> <<>>, file |-> f] }
  ELSE IF f.eof THEN { [ok |-> FALSE, bytes |-> <<>>, file |-> f] }
  ELSE IF f.fixed
  THEN (IF n <= Left(f)
          THEN { [ok |-> TRUE, bytes |-> SubSeq(f.data, f.pos + 1, f.pos + n),
                  file |-> FixedTake(f, n)] }
          ELSE { [ok |-> FALSE, bytes |-> SubSeq(f.data, f.pos + 1, Len(f.data)),
                  file |-> FixedTake(f, Left(f))] })
  ELSE (IF n <= Room(f)
          THEN { [ok |-> TRUE, bytes |-> b, file |-> Take(f, b, e)] :
                   b \in [1..n -> S], e \in NewEof(f, n) }
          ELSE {})
       \cup { [ok |-> FALSE, bytes |-> b, file |-> Take(f, b, TRUE)] :
                b \in SeqsOfLen(S, 1, Min(n - 1, Room(f))) }

\* file.read_until(b'\n', &mut buf): the bytes up to and including the first
\* LF, or up to the end of the reader when no LF comes; never an error
ReadUntilLF(f, S) ==
  IF f.eof THEN { [bytes |-> <<>>, file |-> f] }
  ELSE IF f.fixed
  THEN LET j == FindLF(f.data, f.pos + 1)
           k == IF j = 0 THEN Len(f.data) ELSE j
       IN { [bytes |-> SubSeq(f.data, f.pos + 1, k), file |-> FixedTake(f, k - f.pos)] }
  ELSE UNION { { [bytes |-> Append(c, LF), file |-> Take(f, Append(c, LF), e)] :
                   e \in NewEof(f, Len(c) + 1) } :
               c \in SeqsOfLen(S, 0, Min(MaxLine, Room(f) - 1)) }
       \cup { [bytes |-> c, file |-> Take(f, c, TRUE)] :
                c \in SeqsOfLen(S, 1, Min(MaxLine, Room(f))) }

\* file.read_line(&mut buf): read_until into a String.  Every byte of
\* LineBytes is ASCII, so the line is always valid UTF-8.
ReadLine(f, S) == ReadUntilLF(f, S)

(***************************************************************************)
(* Text and number conversions of the standard library, as the handlers    *)
(* use them.                                                               *)
(***************************************************************************)
IsSpace(b) == b \in {9, 10, 11, 12, 13, 32}
IsDigit(b) == b \in 48..57

RECURSIVE TrimStart(_)
TrimStart(s) == IF s # <<>> /\ IsSpace(s[1]) THEN TrimStart(Tail(s)) ELSE s

RECURSIVE TrimEnd(_)
TrimEnd(s) == IF s # <<>> /\ IsSpace(Last(s)) THEN TrimEnd(Front(s)) ELSE s

\* str::trim
Trim(s) == TrimEnd(TrimStart(s))

\* str::trim_end_matches(c): every trailing c is removed
RECURSIVE TrimEndMatches(_, _)
TrimEndMatches(s, c) ==
  IF s # <<>> /\ Last(s) = c THEN TrimEndMatches(Front(s), c) ELSE s

\* the decimal digits of the largest magnitudes of i32, u32 and i128
I32_MAX == <<2, 1, 4, 7, 4, 8, 3, 6, 4, 7>>
I32_MIN == <<2, 1, 4, 7, 4, 8, 3, 6, 4, 8>>
U32_MAX == <<4, 2, 9, 4, 9, 6, 7, 2, 9, 5>>
I128_MAX ==
  <<1, 7, 0, 1, 4, 1, 1, 8, 3, 4, 6, 0, 4, 6, 9, 2, 3, 1, 7, 3,
    1, 6, 8, 7, 3, 0, 3, 7, 1, 5, 8, 8, 4, 1, 0, 5, 7, 2, 7>>
I128_MIN ==
  <<1, 7, 0, 1, 4, 1, 1, 8, 3, 4, 6, 0, 4, 6, 9, 2, 3, 1, 7, 3,
    1, 6, 8, 7, 3, 0, 3, 7, 1, 5, 8, 8, 4, 1, 0, 5, 7, 2, 8>>
\* f64 keeps every integer of at most 15 digits exactly
F64_EXACT == <<9, 9, 9, 9, 9, 9, 9, 9, 9, 9, 9, 9, 9, 9, 9>>

RECURSIVE StripZeros(_)
StripZeros(d) == IF Len(d) > 1 /\ d[1] = 48 THEN StripZeros(Tail(d)) ELSE d

\* whether the number written with the ASCII digits d is at most the number
\* whose decimal digits are bound
RECURSIVE LexLeq(_, _)
LexLeq(d, bound) ==
  IF d = <<>> THEN TRUE
  ELSE IF d[1] - 48 < bound[1] THEN TRUE
  ELSE IF d[1] - 48 > bound[1] THEN FALSE
  ELSE LexLeq(Tail(d), Tail(bound))

Fits(d, bound) ==
  LET z == StripZeros(d) IN
  Len(z) < Len(bound) \/ (Len(z) = Len(bound) /\ LexLeq(z, bound))

\* the number written with the ASCII digits d, times sign (1 or -1); it is
\* summed with its sign so that the least i32 is reached without overflow
RECURSIVE DecVal(_, _)
DecVal(d, sign) ==
  IF d = <<>> THEN 0 ELSE 10 * DecVal(Front(d), sign) + sign * (Last(d) - 48)

\* str::parse for an integer type: an optional '+', or '-' when the type is
\* signed, then one or more decimal digits, and a value the type holds
\* (min = <<>> for an unsigned type)
ParseParts(s, min, max) ==
  LET neg == s # <<>> /\ s[1] = 45
      signed == s # <<>> /\ (s[1] = 43 \/ (neg /\ min # <<>>))
      d == IF signed THEN Tail(s) ELSE s
  IN [ok |-> /\ d # <<>>
             /\ \A i \in 1..Len(d) : IsDigit(d[i])
             /\ Fits(d, IF neg THEN min ELSE max),
      neg |-> neg, d |-> d]

\* the value of a type of at most 32 bits
ParseInt(s, min, max) ==
  LET p == ParseParts(s, min, max)
  IN IF p.ok THEN [ok |-> TRUE, v |-> DecVal(p.d, IF p.neg THEN -1 ELSE 1)]
     ELSE [ok |-> FALSE, v |-> 0]

\* an integer wider than 32 bits: its sign and its decimal digits without
\* leading zeros
BigInt(neg, d) ==
  LET z == StripZeros(d)
  IN [neg |-> neg /\ z # <<48>>, digits |-> [i \in 1..Len(z) |-> z[i] - 48]]

\* the value of a wider type
ParseBig(s, min, max) ==
  LET p == ParseParts(s, min, max)
  IN IF p.ok THEN [ok |-> TRUE, v |-> BigInt(p.neg, p.d)]
     ELSE [ok |-> FALSE, v |-> BigInt(FALSE, <<48>>)]

\* LittleEndian::read_u16, and read_u32 / read_i32 of at most 3 bytes
LeUnsigned(b) ==
  LET RECURSIVE go(_)
      go(i) == IF i > Len(b) THEN 0 ELSE b[i] + 256 * go(i + 1)
  IN go(1)

\* read_i32 that drops the sign bit
LeI32_nosign(b) == LeUnsigned(SubSeq(b, 1, 3)) + 16777216 * (b[4] % 128)

\* LittleEndian::read_i32: two's complement of 4 little-endian bytes
LeI32(b) ==
  LeUnsigned(SubSeq(b, 1, 3)) + 16777216 * (IF b[4] >= 128 THEN b[4] - 256 ELSE b[4])

\* LittleEndian::read_u32 as usize, used as a count of bytes to read: the
\* count, or cap when the count is larger than cap
LeU32Capped(b, cap) ==
  LET RECURSIVE go(_)
      go(i) == IF i > Len(b) THEN 0 ELSE Min(cap, b[i] + 256 * go(i + 1))
  IN go(1)

(***************************************************************************)
(* Unpickler::new and Unpickler::load.                                     *)
(***************************************************************************)
\* no wrapper is at hand while a stream is loaded
NoWrapped == [args |-> <<>>, eq |-> <<>>, hash |-> <<>>]

\* Unpickler::new, and no call yet
NewUnpickler ==
  /\ stack = <<>>
  /\ metastack = <<>>
  /\ memo = EmptyMemo
  /\ proto = 0
  /\ file = NoFile
  /\ op = NoOp
  /\ opPos = 0
  /\ ret = Idle
  /\ entry = "none"
  /\ loads = 0

Init == NewUnpickler /\ wrapped = NoWrapped

\* a call of load with a reader; the Unpickler is taken as it is
load ==
  /\ ret.st \in {"idle", "Ok", "Err"}
  /\ loads < MaxLoads
  /\ loads' = loads + 1
  /\ file' \in NewFile(file.total, loads = 0)
  /\ ret' = Running
  /\ entry' = "load"
  /\ op' = NoOp
  /\ opPos' = 0
  /\ UNCHANGED <<unpickler, wrapped>>

\* a call of load_from_slice
load_from_slice ==
  /\ ret.st \in {"idle", "Ok", "Err"}
  /\ loads < MaxLoads
  /\ loads' = loads + 1
  /\ ret' = Panic("todo", "Unpickler::load_from_slice")
  /\ entry' = "load_from_slice"
  /\ UNCHANGED <<unpickler, file, op, opPos, wrapped>>

\* read_exact that waits for a byte when the reader has none left
load_read_exact_err_wait ==
  /\ ret.st = "running"
  /\ file.eof
  /\ UNCHANGED vars

\* the loop of load reads the opcode and the reader has no byte left
load_read_exact_err ==
  /\ ret.st = "running"
  /\ file.eof
  /\ ret' = Err(Io("UnexpectedEof"))
  /\ UNCHANGED <<unpickler, file, op, opPos, entry, loads, wrapped>>

\* let op = buf[0], read at the offset the reader was at
OpRead(o) == op' = o /\ opPos' = file.pos

\* the loop of load going on to the next opcode after a handler's error
AfterOp_resync(o) ==
  IF ret.st \in {"running", "Err"} /\ ~file.eof
    THEN (IF file.fixed
            THEN (IF file.data[file.pos + 1] = o THEN {FixedTake(file, 1)} ELSE {})
            ELSE { Take(file, <<o>>, e) : e \in NewEof(file, 1) })
    ELSE {}

\* the readers after the loop of load has read the opcode o
AfterOp(o) ==
  IF ret.st = "running" /\ ~file.eof
    THEN (IF file.fixed
            THEN (IF file.data[file.pos + 1] = o THEN {FixedTake(file, 1)} ELSE {})
            ELSE { Take(file, <<o>>, e) : e \in NewEof(file, 1) })
    ELSE {}

\* load_stop taking the bottom of the stack instead of its top
load_stop_bottom(s) ==
  IF s = <<>> THEN [some |-> FALSE, v |-> VNone, stack |-> s]
  ELSE [some |-> TRUE, v |-> s[1], stack |-> Tail(s)]

\* fn load_stop: self.stack.pop()
load_stop(s) ==
  IF s = <<>> THEN [some |-> FALSE, v |-> VNone, stack |-> s]
  ELSE [some |-> TRUE, v |-> Last(s), stack |-> Front(s)]

\* the STOP arm of load and the match on its result
load_STOP ==
  \E f \in AfterOp(STOP) :
    LET r == load_stop(stack) IN
    /\ file' = f
    /\ stack' = r.stack
    /\ ret' = IF r.some THEN Ok(r.v) ELSE Err(Syntax("EOFWhileParsing", 0))
    /\ UNCHANGED <<metastack, memo, proto, entry, loads, wrapped>> /\ OpRead(STOP)

\* the last arm of load_op: unreachable!
load_op_unreachable ==
  \E b \in UnknownOps : \E f \in AfterOp(b) :
    /\ file' = f
    /\ OpRead(b)
    /\ ret' = Panic("unreachable", b)
    /\ UNCHANGED <<unpickler, entry, loads, wrapped>>

\* a handler whose body is todo!(what) or panic!(what)
Unimplemented(o, kind, what) ==
  \E f \in AfterOp(o) :
    /\ file' = f
    /\ OpRead(o)
    /\ ret' = Panic(kind, what)
    /\ UNCHANGED <<unpickler, entry, loads, wrapped>>

\* a handler that goes on (Ok(())) or returns e (Err(e)) leaves ret so
Continue == Running

(***************************************************************************)
(* The handlers of load_op.                                                *)
(***************************************************************************)
\* fn pop_mark: items = stack.clone(); stack = metastack.pop().unwrap()
\* pop_mark forgetting the stack saved by MARK
pop_mark_forget(s, ms) ==
  IF ms = <<>> THEN [ok |-> FALSE, items |-> s, stack |-> s, metastack |-> ms]
  ELSE [ok |-> TRUE, items |-> s, stack |-> <<>>, metastack |-> Front(ms)]

pop_mark(s, ms) ==
  IF ms = <<>> THEN [ok |-> FALSE, items |-> s, stack |-> s, metastack |-> ms]
  ELSE [ok |-> TRUE, items |-> s, stack |-> Last(ms), metastack |-> Front(ms)]

UnwrapNone == Panic("unwrap", "Option::unwrap on None")

\* load_mark that clears the operand stack and saves no frame
load_mark_noframe ==
  \E f \in AfterOp(MARK) :
    /\ file' = f
    /\ stack' = <<>>
    /\ UNCHANGED <<metastack, memo, proto, ret, entry, loads, wrapped>> /\ OpRead(MARK)

load_mark ==
  \E f \in AfterOp(MARK) :
    /\ file' = f
    /\ metastack' = Append(metastack, stack)
    /\ stack' = <<>>
    /\ UNCHANGED <<memo, proto, ret, entry, loads, wrapped>> /\ OpRead(MARK)

\* load_pop that drops the mark frame without restoring the saved stack
load_pop_discard ==
  \E f \in AfterOp(POP) :
    /\ file' = f
    /\ IF Len(stack) > 0
         THEN /\ stack' = Front(stack)
              /\ UNCHANGED <<metastack, ret>>
         ELSE LET r == pop_mark(stack, metastack) IN
              /\ stack' = <<>>
              /\ metastack' = r.metastack
              /\ ret' = IF r.ok THEN Continue ELSE UnwrapNone
    /\ UNCHANGED <<memo, proto, entry, loads, wrapped>> /\ OpRead(POP)

load_pop ==
  \E f \in AfterOp(POP) :
    /\ file' = f
    /\ IF Len(stack) > 0
         THEN /\ stack' = Front(stack)
              /\ UNCHANGED <<metastack, ret>>
         ELSE LET r == pop_mark(stack, metastack) IN
              /\ stack' = r.stack
              /\ metastack' = r.metastack
              /\ ret' = IF r.ok THEN Continue ELSE UnwrapNone
    /\ UNCHANGED <<memo, proto, entry, loads, wrapped>> /\ OpRead(POP)

\* load_pop_mark restoring the parent stack from metastack.last(), the frame
\* left on the mark stack
load_pop_mark_keep ==
  \E f \in AfterOp(POP_MARK) :
    LET r == pop_mark(stack, metastack) IN
    /\ file' = f
    /\ stack' = r.stack
    /\ UNCHANGED metastack
    /\ ret' = IF r.ok THEN Continue ELSE UnwrapNone
    /\ UNCHANGED <<memo, proto, entry, loads, wrapped>> /\ OpRead(POP_MARK)

load_pop_mark ==
  \E f \in AfterOp(POP_MARK) :
    LET r == pop_mark(stack, metastack) IN
    /\ file' = f
    /\ stack' = r.stack
    /\ metastack' = r.metastack
    /\ ret' = IF r.ok THEN Continue ELSE UnwrapNone
    /\ UNCHANGED <<memo, proto, entry, loads, wrapped>> /\ OpRead(POP_MARK)

\* load_dup with last().unwrap() in place of ok_or_else(StackUnderflow)
load_dup_unwrap ==
  \E f \in AfterOp(DUP) :
    /\ file' = f
    /\ IF stack = <<>>
         THEN /\ ret' = UnwrapNone
              /\ UNCHANGED stack
         ELSE /\ stack' = Append(stack, Last(stack))
              /\ UNCHANGED ret
    /\ UNCHANGED <<metastack, memo, proto, entry, loads, wrapped>> /\ OpRead(DUP)

load_dup ==
  \E f \in AfterOp(DUP) :
    /\ file' = f
    /\ IF stack = <<>>
         THEN /\ ret' = Err(Syntax("StackUnderflow", 0))
              /\ UNCHANGED stack
         ELSE /\ stack' = Append(stack, Last(stack))
              /\ UNCHANGED ret
    /\ UNCHANGED <<metastack, memo, proto, entry, loads, wrapped>> /\ OpRead(DUP)

\* buf.trim().parse::<f64>() on the lines enumerated, which hold digits, 'L'
\* and quotes only: a number when the text is a sign and digits
load_float ==
  \E f \in AfterOp(FLOAT) : \E r \in ReadLine(f, LineBytes) :
    LET n == ParseInt(Trim(r.bytes), F64_EXACT, F64_EXACT) IN
    /\ file' = r.file
    /\ IF n.ok
         THEN /\ stack' = Append(stack, VF64(n.v))
              /\ UNCHANGED ret
         ELSE /\ ret' = Err(Converted("ParseFloatError"))
              /\ UNCHANGED stack
    /\ UNCHANGED <<metastack, memo, proto, entry, loads, wrapped>> /\ OpRead(FLOAT)

\* const TRUE = b"I01\n" and const FALSE = b"I00\n": four bytes, the first
\* of them the letter I
TRUE_LINE == <<INT, 48, 49, LF>>
FALSE_LINE == <<INT, 48, 48, LF>>

load_int ==
  \E f \in AfterOp(INT) : \E r \in ReadLine(f, LineBytes) :
    LET n == ParseInt(Trim(r.bytes), I32_MIN, I32_MAX) IN
    /\ file' = r.file
    /\ IF r.bytes = TRUE_LINE
         THEN stack' = Append(stack, VBool(TRUE)) /\ UNCHANGED ret
         ELSE IF r.bytes = FALSE_LINE
         THEN stack' = Append(stack, VBool(FALSE)) /\ UNCHANGED ret
         ELSE IF n.ok
         THEN stack' = Append(stack, VInt(n.v)) /\ UNCHANGED ret
         ELSE ret' = Err(Converted("ParseIntError")) /\ UNCHANGED stack
    /\ UNCHANGED <<metastack, memo, proto, entry, loads, wrapped>> /\ OpRead(INT)

load_binint ==
  \E f \in AfterOp(BININT) : \E r \in ReadExact(f, 4, PayloadBytes) :
    /\ file' = r.file
    /\ IF r.ok
         THEN stack' = Append(stack, VInt(LeI32(r.bytes))) /\ UNCHANGED ret
         ELSE ret' = Err(Io("UnexpectedEof")) /\ UNCHANGED stack
    /\ UNCHANGED <<metastack, memo, proto, entry, loads, wrapped>> /\ OpRead(BININT)

load_binint1 ==
  \E f \in AfterOp(BININT1) : \E r \in ReadExact(f, 1, PayloadBytes) :
    /\ file' = r.file
    /\ IF r.ok
         THEN stack' = Append(stack, VInt(r.bytes[1])) /\ UNCHANGED ret
         ELSE ret' = Err(Io("UnexpectedEof")) /\ UNCHANGED stack
    /\ UNCHANGED <<metastack, memo, proto, entry, loads, wrapped>> /\ OpRead(BININT1)

load_long ==
  \E f \in AfterOp(LONG) : \E r \in ReadLine(f, LineBytes) :
    LET n == ParseBig(TrimEndMatches(Trim(r.bytes), 76), I128_MIN, I128_MAX) IN
    /\ file' = r.file
    /\ IF n.ok
         THEN stack' = Append(stack, VI128(n.v)) /\ UNCHANGED ret
         ELSE ret' = Err(Converted("ParseIntError")) /\ UNCHANGED stack
    /\ UNCHANGED <<metastack, memo, proto, entry, loads, wrapped>> /\ OpRead(LONG)

\* pushes, then todo!
load_binint2 ==
  \E f \in AfterOp(BININT2) : \E r \in ReadExact(f, 2, PayloadBytes) :
    /\ file' = r.file
    /\ IF r.ok
         THEN /\ stack' = Append(stack, VInt(LeUnsigned(r.bytes)))
              /\ ret' = Panic("todo", "Unpickler::load_binint2")
         ELSE ret' = Err(Io("UnexpectedEof")) /\ UNCHANGED stack
    /\ UNCHANGED <<metastack, memo, proto, entry, loads, wrapped>> /\ OpRead(BININT2)

load_none ==
  \E f \in AfterOp(NONE) :
    /\ file' = f
    /\ stack' = Append(stack, VNone)
    /\ UNCHANGED <<metastack, memo, proto, ret, entry, loads, wrapped>> /\ OpRead(NONE)

load_persid ==
  \E f \in AfterOp(PERSID) : \E r \in ReadLine(f, LineBytes) :
    /\ file' = r.file
    /\ stack' = Append(stack, VPersId(r.bytes))
    /\ UNCHANGED <<metastack, memo, proto, ret, entry, loads, wrapped>> /\ OpRead(PERSID)

load_binpersid ==
  \E f \in AfterOp(BINPERSID) :
    /\ file' = f
    /\ IF stack = <<>>
         THEN ret' = Err(Syntax("StackUnderflow", 0)) /\ UNCHANGED stack
         ELSE stack' = Append(Front(stack), VBinPersId(Last(stack))) /\ UNCHANGED ret
    /\ UNCHANGED <<metastack, memo, proto, entry, loads, wrapped>> /\ OpRead(BINPERSID)

load_reduce == Unimplemented(REDUCE, "panic", "load_reduce: not supported")

InvalidString == Err(Syntax("InvalidString", 0))

TodoDecodeString == Panic("todo", "Unpickler::decode_string")

\* buf.pop() drops the last byte read, whatever it is; the quote test reads
\* buf[0] and buf[len - 2]
load_string ==
  \E f \in AfterOp(STRING_) : \E r \in ReadUntilLF(f, LineBytes) :
    LET buf == Front(r.bytes) IN
    /\ file' = r.file
    /\ ret' = IF r.bytes = <<>> THEN InvalidString
              ELSE IF Len(buf) > 3 /\ buf[1] = 39 /\ buf[1] = buf[Len(buf) - 1]
              THEN TodoDecodeString
              ELSE InvalidString
    /\ UNCHANGED <<unpickler, entry, loads, wrapped>> /\ OpRead(STRING_)

\* len = read_i32 as usize: a negative length is a length above isize::MAX,
\* which vec![0; len] refuses with a panic
load_binstring ==
  \E f \in AfterOp(BINSTRING) : \E r \in ReadExact(f, 4, PayloadBytes) :
    IF ~r.ok
      THEN /\ file' = r.file
           /\ ret' = Err(Io("UnexpectedEof"))
           /\ UNCHANGED <<unpickler, entry, loads, wrapped>> /\ OpRead(BINSTRING)
      ELSE IF LeI32(r.bytes) < 0
      THEN /\ file' = r.file
           /\ ret' = Panic("vec", "capacity overflow")
           /\ UNCHANGED <<unpickler, entry, loads, wrapped>> /\ OpRead(BINSTRING)
      ELSE \E d \in ReadExact(r.file, LeI32(r.bytes), PayloadBytes) :
           /\ file' = d.file
           /\ ret' = IF d.ok THEN TodoDecodeString ELSE Err(Io("UnexpectedEof"))
           /\ UNCHANGED <<unpickler, entry, loads, wrapped>> /\ OpRead(BINSTRING)

load_short_binstring ==
  \E f \in AfterOp(SHORT_BINSTRING) : \E r \in ReadExact(f, 1, PayloadBytes) :
    IF ~r.ok
      THEN /\ file' = r.file
           /\ ret' = Err(Io("UnexpectedEof"))
           /\ UNCHANGED <<unpickler, entry, loads, wrapped>> /\ OpRead(SHORT_BINSTRING)
      ELSE \E d \in ReadExact(r.file, r.bytes[1], PayloadBytes) :
           /\ file' = d.file
           /\ ret' = IF d.ok THEN TodoDecodeString ELSE Err(Io("UnexpectedEof"))
           /\ UNCHANGED <<unpickler, entry, loads, wrapped>> /\ OpRead(SHORT_BINSTRING)

\* String::from_utf8 on the bytes enumerated: PayloadBytes and LineBytes hold
\* no lead byte of a multi-byte sequence, so the text is UTF-8 exactly when
\* every byte is ASCII
IsUtf8(b) == \A i \in 1..Len(b) : b[i] < 128

load_unicode ==
  \E f \in AfterOp(UNICODE) : \E r \in ReadUntilLF(f, LineBytes) :
    /\ file' = r.file
    /\ IF IsUtf8(r.bytes)
         THEN stack' = Append(stack, VString(r.bytes)) /\ UNCHANGED ret
         ELSE ret' = Err(Converted("FromUtf8Error")) /\ UNCHANGED stack
    /\ UNCHANGED <<metastack, memo, proto, entry, loads, wrapped>> /\ OpRead(UNICODE)

load_binunicode ==
  \E f \in AfterOp(BINUNICODE) : \E r \in ReadExact(f, 4, PayloadBytes) :
    IF ~r.ok
      THEN /\ file' = r.file
           /\ ret' = Err(Io("UnexpectedEof"))
           /\ UNCHANGED <<unpickler, entry, loads, wrapped>> /\ OpRead(BINUNICODE)
      ELSE \E d \in ReadExact(r.file, LeU32Capped(r.bytes, Cap(r.file)), PayloadBytes) :
           /\ file' = d.file
           /\ IF ~d.ok
                THEN ret' = Err(Io("UnexpectedEof")) /\ UNCHANGED stack
                ELSE IF IsUtf8(d.bytes)
                THEN stack' = Append(stack, VString(d.bytes)) /\ UNCHANGED ret
                ELSE ret' = Err(Converted("FromUtf8Error")) /\ UNCHANGED stack
           /\ UNCHANGED <<metastack, memo, proto, entry, loads, wrapped>> /\ OpRead(BINUNICODE)

\* the value is popped before the list is looked for
load_append ==
  \E f \in AfterOp(APPEND) :
    /\ file' = f
    /\ IF stack = <<>>
         THEN ret' = Err(Syntax("StackUnderflow", 0)) /\ UNCHANGED stack
         ELSE IF Len(stack) = 1
         THEN ret' = Err(Syntax("StackUnderflow", 0)) /\ stack' = Front(stack)
         ELSE IF stack[Len(stack) - 1].t = "List"
         THEN /\ stack' = Append(SubSeq(stack, 1, Len(stack) - 2),
                                 VList(Append(stack[Len(stack) - 1].v, Last(stack))))
              /\ UNCHANGED ret
         ELSE ret' = Err(Syntax("InvalidValue", "Expected list on stack"))
              /\ stack' = Front(stack)
    /\ UNCHANGED <<metastack, memo, proto, entry, loads, wrapped>> /\ OpRead(APPEND)

load_build == Unimplemented(BUILD, "todo", "Unpickler::load_build")

load_global == Unimplemented(GLOBAL, "todo", "Unpickler::load_global")

\* items[i], items[i + 1] for i = 0, 2, 4, ..: the pairs of items, when it has
\* an even number of them
\* the pairs taken as (items[i + 1], items[i])
DictPairs_swapped(items) ==
  [i \in 1..(Len(items) \div 2) |-> <<items[2 * i], items[2 * i - 1]>>]

DictPairs(items) == [i \in 1..(Len(items) \div 2) |-> <<items[2 * i - 1], items[2 * i]>>]

load_dict ==
  \E f \in AfterOp(DICT) :
    LET r == pop_mark(stack, metastack) IN
    /\ file' = f
    /\ metastack' = r.metastack
    /\ IF ~r.ok
         THEN ret' = UnwrapNone /\ stack' = r.stack
         ELSE IF Len(r.items) % 2 = 1
         THEN ret' = Panic("index", "index out of bounds") /\ stack' = r.stack
         ELSE stack' = Append(r.stack, VDict(DictPairs(r.items))) /\ UNCHANGED ret
    /\ UNCHANGED <<memo, proto, entry, loads, wrapped>> /\ OpRead(DICT)

load_empty_dict == Unimplemented(EMPTY_DICT, "todo", "Unpickler::load_empty_dict")

load_appends == Unimplemented(APPENDS, "todo", "Unpickler::load_appends")

load_get == Unimplemented(GET, "todo", "Unpickler::load_get")

load_binget == Unimplemented(BINGET, "todo", "Unpickler::load_binget")

load_inst == Unimplemented(INST, "todo", "Unpickler::load_inst")

load_long_binget == Unimplemented(LONG_BINGET, "todo", "Unpickler::load_long_binget")

load_list == Unimplemented(LIST, "todo", "Unpickler::load_list")

load_empty_list == Unimplemented(EMPTY_LIST, "todo", "Unpickler::load_empty_list")

load_obj == Unimplemented(OBJ, "todo", "Unpickler::load_obj")

\* HashMap::insert
MemoInsert(m, i, v) == [k \in DOMAIN m \cup {i} |-> IF k = i THEN v ELSE m[k]]

\* load_put leaving a reference on the stack for an id it does not store
load_put_dangling ==
  \E f \in AfterOp(PUT) : \E r \in ReadLine(f, LineBytes) :
    LET i == ParseInt(Trim(r.bytes), <<>>, U32_MAX) IN
    /\ file' = r.file
    /\ IF ~i.ok
         THEN ret' = Err(Converted("ParseIntError")) /\ UNCHANGED stack
         ELSE IF stack = <<>>
         THEN ret' = UnwrapNone /\ UNCHANGED stack
         ELSE stack' = Append(Front(stack), VMemoRef(i.v)) /\ UNCHANGED ret
    /\ UNCHANGED <<memo, metastack, proto, entry, loads, wrapped>> /\ OpRead(PUT)

\* the line is parsed before the stack is looked at; the top stays in place
load_put ==
  \E f \in AfterOp(PUT) : \E r \in ReadLine(f, LineBytes) :
    LET i == ParseInt(Trim(r.bytes), <<>>, U32_MAX) IN
    /\ file' = r.file
    /\ IF ~i.ok
         THEN ret' = Err(Converted("ParseIntError")) /\ UNCHANGED memo
         ELSE IF stack = <<>>
         THEN ret' = UnwrapNone /\ UNCHANGED memo
         ELSE memo' = MemoInsert(memo, i.v, Last(stack)) /\ UNCHANGED ret
    /\ UNCHANGED <<stack, metastack, proto, entry, loads, wrapped>> /\ OpRead(PUT)

load_binput == Unimplemented(BINPUT, "todo", "Unpickler::load_binput")

load_long_binput == Unimplemented(LONG_BINPUT, "todo", "Unpickler::load_long_binput")

\* load_setitem on a Dict that the memo shares with the stack: the entry is
\* seen through the memo too
load_setitem_shared ==
  \E f \in AfterOp(SETITEM) :
    /\ file' = f
    /\ IF Len(stack) < 3
         THEN /\ ret' = UnwrapNone
              /\ stack' = SubSeq(stack, 1, Len(stack) - Min(2, Len(stack)))
              /\ UNCHANGED memo
         ELSE IF stack[Len(stack) - 2].t = "Dict"
         THEN LET old == stack[Len(stack) - 2]
                  new == VDict(Append(old.v, <<stack[Len(stack) - 1], Last(stack)>>)) IN
              /\ stack' = Append(SubSeq(stack, 1, Len(stack) - 3), new)
              /\ memo' = [k \in DOMAIN memo |-> IF memo[k] = old THEN new ELSE memo[k]]
              /\ UNCHANGED ret
         ELSE /\ ret' = Panic("unreachable", "Instead of Dict found")
              /\ stack' = SubSeq(stack, 1, Len(stack) - 2)
              /\ UNCHANGED memo
    /\ UNCHANGED <<metastack, proto, entry, loads, wrapped>> /\ OpRead(SETITEM)

\* value and key are popped one after the other, each with unwrap
load_setitem ==
  \E f \in AfterOp(SETITEM) :
    /\ file' = f
    /\ IF Len(stack) < 3
         THEN /\ ret' = UnwrapNone
              /\ stack' = SubSeq(stack, 1, Len(stack) - Min(2, Len(stack)))
         ELSE IF stack[Len(stack) - 2].t = "Dict"
         THEN /\ stack' = Append(SubSeq(stack, 1, Len(stack) - 3),
                                 VDict(Append(stack[Len(stack) - 2].v,
                                              <<stack[Len(stack) - 1], Last(stack)>>)))
              /\ UNCHANGED ret
         ELSE /\ ret' = Panic("unreachable", "Instead of Dict found")
              /\ stack' = SubSeq(stack, 1, Len(stack) - 2)
    /\ UNCHANGED <<metastack, memo, proto, entry, loads, wrapped>> /\ OpRead(SETITEM)

load_tuple ==
  \E f \in AfterOp(TUPLE) :
    LET r == pop_mark(stack, metastack) IN
    /\ file' = f
    /\ metastack' = r.metastack
    /\ IF r.ok
         THEN stack' = Append(r.stack, VTuple(r.items)) /\ UNCHANGED ret
         ELSE ret' = UnwrapNone /\ stack' = r.stack
    /\ UNCHANGED <<memo, proto, entry, loads, wrapped>> /\ OpRead(TUPLE)

load_empty_tuple == Unimplemented(EMPTY_TUPLE, "todo", "Unpickler::load_empty_tuple")

load_setitems == Unimplemented(SETITEMS, "todo", "Unpickler::load_setitems")

load_binfloat == Unimplemented(BINFLOAT, "todo", "Unpickler::load_binfloat")

\* load_proto that records the byte before it checks it
load_proto_eager ==
  \E f \in AfterOp(PROTO) : \E r \in ReadExact(f, 1, PayloadBytes) :
    /\ file' = r.file
    /\ IF ~r.ok
         THEN ret' = Err(Io("UnexpectedEof")) /\ UNCHANGED proto
         ELSE /\ proto' = r.bytes[1]
              /\ IF r.bytes[1] >= 0 /\ r.bytes[1] <= HIGHEST_PROTOCOL
                   THEN UNCHANGED ret
                   ELSE ret' = Err(Syntax("InvalidValue", "unsupported pickle protocol"))
    /\ UNCHANGED <<stack, metastack, memo, entry, loads, wrapped>> /\ OpRead(PROTO)

load_proto ==
  \E f \in AfterOp(PROTO) : \E r \in ReadExact(f, 1, PayloadBytes) :
    /\ file' = r.file
    /\ IF ~r.ok
         THEN ret' = Err(Io("UnexpectedEof")) /\ UNCHANGED proto
         ELSE IF r.bytes[1] >= 0 /\ r.bytes[1] <= HIGHEST_PROTOCOL
         THEN proto' = r.bytes[1] /\ UNCHANGED ret
         ELSE ret' = Err(Syntax("InvalidValue", "unsupported pickle protocol"))
              /\ UNCHANGED proto
    /\ UNCHANGED <<stack, metastack, memo, entry, loads, wrapped>> /\ OpRead(PROTO)

load_newobj == Unimplemented(NEWOBJ, "todo", "Unpickler::load_newobj")

load_ext1 == Unimplemented(EXT1, "todo", "Unpickler::load_ext1")

load_ext2 == Unimplemented(EXT2, "todo", "Unpickler::load_ext2")

load_ext4 == Unimplemented(EXT4, "todo", "Unpickler::load_ext4")

load_tuple1 == Unimplemented(TUPLE1, "todo", "Unpickler::load_tuple1")

load_tuple2 == Unimplemented(TUPLE2, "todo", "Unpickler::load_tuple2")

load_tuple3 == Unimplemented(TUPLE3, "todo", "Unpickler::load_tuple3")

load_newtrue == Unimplemented(NEWTRUE, "todo", "Unpickler::load_newtrue")

load_newfalse == Unimplemented(NEWFALSE, "todo", "Unpickler::load_newfalse")

load_long1 == Unimplemented(LONG1, "todo", "Unpickler::load_long1")

load_long4 == Unimplemented(LONG4, "todo", "Unpickler::load_long4")

load_binbytes == Unimplemented(BINBYTES, "todo", "Unpickler::load_binbytes")

load_short_binbytes == Unimplemented(SHORT_BINBYTES, "todo", "Unpickler::load_short_binbytes")

load_short_binunicode == Unimplemented(SHORT_BINUNICODE, "todo", "Unpickler::load_short_binunicode")

load_binunicode8 == Unimplemented(BINUNICODE8, "todo", "Unpickler::load_binunicode8")

load_binbytes8 == Unimplemented(BINBYTES8, "todo", "Unpickler::load_binbytes8")

load_empty_set == Unimplemented(EMPTY_SET, "todo", "Unpickler::load_empty_set")

load_additems == Unimplemented(ADDITEMS, "todo", "Unpickler::load_additems")

load_frozenset == Unimplemented(FROZENSET, "todo", "Unpickler::load_frozenset")

load_newobj_ex == Unimplemented(NEWOBJ_EX, "todo", "Unpickler::load_newobj_ex")

load_stack_global == Unimplemented(STACK_GLOBAL, "todo", "Unpickler::load_stack_global")

load_memoize == Unimplemented(MEMOIZE, "todo", "Unpickler::load_memoize")

load_frame == Unimplemented(FRAME, "todo", "Unpickler::load_frame")

load_bytearray8 == Unimplemented(BYTEARRAY8, "todo", "Unpickler::load_bytearray8")

load_next_buffer == Unimplemented(NEXT_BUFFER, "todo", "Unpickler::load_next_buffer")

load_readonly_buffer == Unimplemented(READONLY_BUFFER, "todo", "Unpickler::load_readonly_buffer")

\* fn load_op: one arm per opcode
load_op ==
  \/ load_mark \/ load_pop \/ load_pop_mark \/ load_dup \/ load_float
  \/ load_int \/ load_binint \/ load_binint1 \/ load_long \/ load_binint2
  \/ load_none \/ load_persid \/ load_binpersid \/ load_reduce \/ load_string
  \/ load_binstring \/ load_short_binstring \/ load_unicode \/ load_binunicode
  \/ load_append \/ load_build \/ load_global \/ load_dict \/ load_empty_dict
  \/ load_appends \/ load_get \/ load_binget \/ load_inst \/ load_long_binget
  \/ load_list \/ load_empty_list \/ load_obj \/ load_put \/ load_binput
  \/ load_long_binput \/ load_setitem \/ load_tuple \/ load_empty_tuple
  \/ load_setitems \/ load_binfloat \/ load_proto \/ load_newobj \/ load_ext1
  \/ load_ext2 \/ load_ext4 \/ load_tuple1 \/ load_tuple2 \/ load_tuple3
  \/ load_newtrue \/ load_newfalse \/ load_long1 \/ load_long4 \/ load_binbytes
  \/ load_short_binbytes \/ load_short_binunicode \/ load_binunicode8
  \/ load_binbytes8 \/ load_empty_set \/ load_additems \/ load_frozenset
  \/ load_newobj_ex \/ load_stack_global \/ load_memoize \/ load_frame
  \/ load_bytearray8 \/ load_next_buffer \/ load_readonly_buffer
  \/ load_op_unreachable

Next ==
  \/ load
  \/ load_from_slice
  \/ load_read_exact_err
  \/ load_STOP
  \/ load_op

Spec == Init /\ [][Next]_vars

(***************************************************************************)
(* One load of a fresh Unpickler from a reader over given bytes.           *)
(***************************************************************************)
Byte == 0..255

\* the ASCII decimal digits of the natural number n
RECURSIVE Dec(_)
Dec(n) == IF n < 10 THEN <<48 + n>> ELSE Append(Dec(n \div 10), 48 + (n % 10))

\* a line-reading opcode, its line, the LF and STOP
LineStream(o, text) == <<o>> \o text \o <<LF, STOP>>

\* every opcode and every unknown byte on its own, and the empty reader
SingleOps == { <<o>> : o \in Opcodes \cup UnknownOps } \cup {<<>>}

\* the four encodings of an integer of one byte
IntOps == {INT, BININT1, BININT2, BININT}

IntStream(o, n) ==
  CASE o = INT -> LineStream(INT, Dec(n))
    [] o = BININT1 -> <<BININT1, n, STOP>>
    [] o = BININT2 -> <<BININT2, n, 0, STOP>>
    [] OTHER -> <<BININT, n, 0, 0, 0, STOP>>

IntStreams == { IntStream(o, n) : o \in IntOps, n \in Byte }

\* opcodes with their payload that push one value and touch nothing else
PushUnits == {<<NONE>>, <<BININT1, 1>>}

RECURSIVE Flatten(_)
Flatten(us) == IF us = <<>> THEN <<>> ELSE us[1] \o Flatten(Tail(us))

\* S pushed (under an outer MARK or not), then MARK, the items, TUPLE, STOP
TupleStream(outer, S, items) ==
  (IF outer THEN <<MARK>> ELSE <<>>) \o Flatten(S) \o <<MARK>> \o Flatten(items)
    \o <<TUPLE, STOP>>

TupleStreams ==
  { TupleStream(outer, S, items) :
      outer \in BOOLEAN,
      S \in SeqsOfLen(PushUnits, 0, MaxPrefix),
      items \in SeqsOfLen(PushUnits, 0, MaxItems) }

\* the ASCII text of a tuple of decimal digits, and that text negated
Ascii(d) == [i \in 1..Len(d) |-> d[i] + 48]
Neg(t) == <<45>> \o t

\* the decimal digits of the largest magnitudes of i64, and of the numbers
\* next to those of i32
I64_MAX == <<9, 2, 2, 3, 3, 7, 2, 0, 3, 6, 8, 5, 4, 7, 7, 5, 8, 0, 7>>
I64_MIN == <<9, 2, 2, 3, 3, 7, 2, 0, 3, 6, 8, 5, 4, 7, 7, 5, 8, 0, 8>>
I32_BELOW == <<2, 1, 4, 7, 4, 8, 3, 6, 4, 9>>

\* signed decimal texts at the ends of i32 and of i64, and around them
DecimalTexts ==
  { <<55>>, Neg(<<49>>), Neg(<<49, 50, 51>>),
    Ascii(I32_MAX), Neg(Ascii(I32_MIN)), Ascii(I32_MIN), Neg(Ascii(I32_BELOW)),
    Ascii(I64_MAX), Neg(Ascii(I64_MIN)) }

\* the payloads of INT that name a boolean, and the texts next to them
BoolTexts == { <<48, 48>>, <<48, 49>>, <<48>>, <<49>>, <<INT, 48, 49>>, <<INT, 48, 48>> }

IntTextStreams == { LineStream(INT, t) : t \in DecimalTexts \cup BoolTexts }

\* 10^20, the long integer of the test object
TenTo20 == <<49>> \o [i \in 1..20 |-> 48]

\* payloads of LONG: with and without L, of 1, 21 and 39 digits, one past
\* i128, and texts that are no number
LongTexts ==
  { <<49>>, <<49, 76>>, Neg(<<49, 76>>), <<43, 49, 76>>, <<48, 48, 55, 76>>,
    TenTo20, Append(TenTo20, 76), Neg(TenTo20),
    Ascii(I128_MAX), Neg(Append(Ascii(I128_MIN), 76)), Ascii(I128_MIN),
    <<49, 76, 76>>, <<76>>, <<>>, <<49, 76, 49>>, <<32, 49>>, <<49, 97>> }

LongStreams == { LineStream(LONG, t) : t \in LongTexts }

\* payload bytes at the ends of the signed and unsigned ranges of a byte
EdgeBytes == {0, 1, 127, 128, 255}

BinInt2Streams == { <<BININT2, b0, b1, STOP>> : b0, b1 \in EdgeBytes }

BinIntStreams ==
  { <<BININT, b0, b1, b2, b3, STOP>> : b0, b1, b2, b3 \in EdgeBytes }

\* payloads of STRING: the two quotes and a letter
StringTexts == SeqsOfLen({39, 34, 97}, 0, MaxText)

StringStreams == { LineStream(STRING_, t) : t \in StringTexts }

\* BINSTRING with its length prefix, one byte of payload and STOP
BinStringStreams ==
  { <<BINSTRING, b0, b1, b2, b3, 97, STOP>> : b0, b1, b2, b3 \in EdgeBytes }

\* the line-reading opcodes that push their text, with lines of letters
TextOps == {PERSID, UNICODE}
Texts == SeqsOfLen({97, 98}, 0, MaxText)

TextStreams == { LineStream(o, t) : o \in TextOps, t \in Texts }

\* opcodes that push a key or a value of a dict: None, 1, and an empty Dict
DictUnits == {<<NONE>>, <<BININT1, 1>>, <<MARK, DICT>>}

\* S pushed, then MARK, keys and values in turn, DICT, STOP
DictStream(S, kv) == Flatten(S) \o <<MARK>> \o Flatten(kv) \o <<DICT, STOP>>

\* what is pushed before MARK: nothing, None, or 1 and None
DictPrefixes == {<<>>, << <<NONE>> >>, << <<BININT1, 1>>, <<NONE>> >>}

DictStreams ==
  { DictStream(S, kv) :
      S \in DictPrefixes,
      kv \in SeqsOfLen(DictUnits, 0, 2 * MaxPairs) }

\* an empty Dict, then MaxPairs times a key, a value and SETITEM, then STOP
RECURSIVE SetItems(_)
SetItems(kv) ==
  IF Len(kv) < 2 THEN <<>>
  ELSE kv[1] \o kv[2] \o <<SETITEM>> \o SetItems(Tail(Tail(kv)))

SetItemStreams ==
  { <<MARK, DICT>> \o SetItems(kv) \o <<STOP>> :
      kv \in SeqsOfLen(DictUnits, 2 * MaxPairs, 2 * MaxPairs) }

\* opcodes that find too few operands, or an operand of the wrong variant
FaultStreams ==
  { <<PUT, 48, LF, STOP>>, <<NONE, SETITEM>>, <<NONE, NONE, SETITEM>>,
    <<NONE, APPEND>>, <<NONE, NONE, APPEND>>, <<NONE, NONE, NONE, SETITEM>>,
    <<NONE, DUP, STOP>>, <<NONE, BINPERSID, STOP>> }

\* opcodes that build the operand stack, the mark stack and the memo: a
\* push, MARK, and PUT of the id 0
SetupUnits == PushUnits \cup {<<MARK>>, <<PUT, 48, LF>>}

\* the setup, then MARK, the pushes, POP_MARK, STOP
MarkPopStream(pre, items) ==
  Flatten(pre) \o <<MARK>> \o Flatten(items) \o <<POP_MARK, STOP>>

MarkPopStreams ==
  { MarkPopStream(pre, items) :
      pre \in SeqsOfLen(SetupUnits, 0, MaxPrefix),
      items \in SeqsOfLen(PushUnits, 0, MaxItems) }

\* the opcodes without payload that push, open a mark frame or consume one
StackOps == {NONE, MARK, POP, POP_MARK, TUPLE, DICT}

\* every sequence of up to MaxOps of them
OpcodeStreams == SeqsOfLen(StackOps, 0, MaxOps)

\* PROTO with every byte, at the start of a stream, and after a stack, a
\* memo entry, a mark frame and the protocol 2 are in place
ProtoSetup == <<NONE, PUT, 48, LF, MARK, NONE, PROTO, 2>>

ProtoStreams ==
  { <<PROTO, p, NONE, STOP>> : p \in Byte } \cup
  { ProtoSetup \o <<PROTO, p, STOP>> : p \in Byte }

\* an empty Dict stored under the id i, MaxPairs times a key, a value and
\* SETITEM, then the Dict stored under the id j
MemoStreams ==
  { <<MARK, DICT, PUT, i, LF>> \o SetItems(kv) \o <<PUT, j, LF, STOP>> :
      i \in {48, 49}, j \in {48, 49},
      kv \in SeqsOfLen(PushUnits, 2 * MaxPairs, 2 * MaxPairs) }

Streams ==
  MemoStreams \cup ProtoStreams \cup OpcodeStreams \cup MarkPopStreams \cup DictStreams \cup SetItemStreams \cup FaultStreams \cup
  Examples \cup SingleOps \cup IntStreams \cup TupleStreams \cup IntTextStreams
    \cup LongStreams \cup BinInt2Streams \cup BinIntStreams \cup StringStreams
    \cup BinStringStreams \cup TextStreams

\* load called once on a fresh Unpickler with a reader over a stream
load_stream ==
  /\ ret.st = "idle"
  /\ loads' = loads + 1
  /\ \E s \in Streams : file' = FixedFile(s)
  /\ ret' = Running
  /\ entry' = "load"
  /\ op' = NoOp
  /\ opPos' = 0
  /\ UNCHANGED <<unpickler, wrapped>>

NextStream ==
  \/ load_stream
  \/ load_read_exact_err
  \/ load_STOP
  \/ load_op

StreamSpec == Init /\ [][NextStream]_vars

\* load called once on a fresh Unpickler with a reader over a stream of at
\* most MaxStream bytes
load_short_stream ==
  /\ ret.st = "idle"
  /\ loads' = loads + 1
  /\ \E s \in {t \in Streams : Len(t) <= MaxStream} : file' = FixedFile(s)
  /\ ret' = Running
  /\ entry' = "load"
  /\ op' = NoOp
  /\ opPos' = 0
  /\ UNCHANGED <<unpickler, wrapped>>

NextShortStream ==
  \/ load_short_stream
  \/ load_read_exact_err
  \/ load_STOP
  \/ load_op

\* load is a sequential loop: once called, it takes its next iteration
FairStreamSpec ==
  /\ Init /\ [][NextShortStream]_vars
  /\ WF_vars(load_read_exact_err \/ load_STOP \/ load_op)

(***************************************************************************)
(* The wrappers of wrappers.rs as pure functions: two F64Wrapper values    *)
(* are drawn, and eq and hash are applied to them.  An f64 is its sign,    *)
(* its biased exponent and its fraction, the fraction as its top 4 bits    *)
(* followed by its 6 low bytes.                                            *)
(***************************************************************************)
FracZero == <<0, 0, 0, 0, 0, 0, 0>>

\* fractions: zero, the lowest bit, the highest bit (the quiet bit of a NaN)
Fracs == {FracZero, <<0, 0, 0, 0, 0, 0, 1>>, <<8, 0, 0, 0, 0, 0, 0>>}

\* zeros and subnormals (exponent 0), numbers around 1.0 (1023), infinities
\* and NaNs (2047), of either sign
F64s == [sign : {0, 1}, exp : {0, 1023, 2047}, frac : Fracs]

F64Wrapper(x) == Val("F64Wrapper", x)

is_nan(x) == x.exp = 2047 /\ x.frac # FracZero

IsZero(x) == x.exp = 0 /\ x.frac = FracZero

\* f64 == f64: a NaN equals nothing, the two zeros are equal, and any other
\* two numbers are equal when sign, exponent and fraction are
f64_eq(x, y) ==
  /\ ~is_nan(x) /\ ~is_nan(y)
  /\ (IsZero(x) /\ IsZero(y)) \/ x = y

\* f64::to_bits: the 8 bytes of the pattern, the sign bit first
to_bits(x) ==
  <<x.sign * 128 + x.exp \div 16, (x.exp % 16) * 16 + x.frac[1]>> \o Tail(x.frac)

\* #[derive(PartialEq)] on F64Wrapper(pub f64): the fields compared with ==
F64Wrapper_eq(a, b) == f64_eq(a.v, b.v)

\* impl Hash for F64Wrapper: what the Hasher is fed, the u64 of to_bits
F64Wrapper_hash(a) == <<to_bits(a.v)>>

WrapperInit ==
  /\ NewUnpickler
  /\ wrapped \in { [NoWrapped EXCEPT !.args = <<F64Wrapper(x), F64Wrapper(y)>>] :
                     x \in F64s, y \in F64s }

\* a == b on the two wrappers
wrapper_eq ==
  /\ wrapped.eq = <<>>
  /\ wrapped' = [wrapped EXCEPT
                   !.eq = <<F64Wrapper_eq(wrapped.args[1], wrapped.args[2])>>]
  /\ UNCHANGED <<unpickler, file, op, opPos, ret, entry, loads>>

\* each of the two wrappers hashed into a Hasher of its own
wrapper_hash ==
  /\ wrapped.hash = <<>>
  /\ wrapped' = [wrapped EXCEPT
                   !.hash = <<F64Wrapper_hash(wrapped.args[1]),
                              F64Wrapper_hash(wrapped.args[2])>>]
  /\ UNCHANGED <<unpickler, file, op, opPos, ret, entry, loads>>

NextWrapper ==
  \/ wrapper_eq
  \/ wrapper_hash

WrapperSpec == WrapperInit /\ [][NextWrapper]_vars

(***************************************************************************)
(* The container wrappers.  A HashMap or a HashSet is the sequence of its  *)
(* entries in the order its iterator yields them, which std leaves         *)
(* unspecified: it follows the keys of the RandomState each map is made    *)
(* with and the capacity, so two maps of the same entries are drawn in     *)
(* every order.                                                            *)
(***************************************************************************)
Distinct(s) == \A i, j \in DOMAIN s : i # j => s[i] # s[j]

Keys(m) == [i \in DOMAIN m |-> m[i][1]]

\* the maps of keys 1, 2 to values 0, 1 and the sets of 1, 2, 3
HashMaps ==
  { m \in SeqsOfLen({1, 2} \X {0, 1}, 0, MaxEntries) : Distinct(Keys(m)) }

HashSets == { e \in SeqsOfLen({1, 2, 3}, 0, MaxEntries) : Distinct(e) }

HashMapWrapper(m) == Val("HashMapWrapper", m)

HashSetWrapper(e) == Val("HashSetWrapper", e)

\* self.0.len() == other.0.len() && self.0.iter().all(|(k, v)| other.0.get(k) == Some(v))
HashMapWrapper_eq(a, b) ==
  /\ Len(a.v) = Len(b.v)
  /\ \A i \in DOMAIN a.v : \E j \in DOMAIN b.v : b.v[j] = a.v[i]

\* for (k, v) in self.0.iter(): k.hash(state); v.hash(state)
HashMapWrapper_hash(a) == Flatten(a.v)

\* self.0.len() == other.0.len() && self.0.iter().all(|v| other.0.get(v) == Some(v))
HashSetWrapper_eq(a, b) ==
  /\ Len(a.v) = Len(b.v)
  /\ \A i \in DOMAIN a.v : \E j \in DOMAIN b.v : b.v[j] = a.v[i]

\* for v in self.0.iter(): v.hash(state)
HashSetWrapper_hash(a) == [i \in DOMAIN a.v |-> a.v[i]]

ContainerInit ==
  /\ NewUnpickler
  /\ wrapped \in
       { [NoWrapped EXCEPT !.args = <<HashMapWrapper(x), HashMapWrapper(y)>>] :
           x \in HashMaps, y \in HashMaps } \cup
       { [NoWrapped EXCEPT !.args = <<HashSetWrapper(x), HashSetWrapper(y)>>] :
           x \in HashSets, y \in HashSets }

\* a == b on two HashMapWrapper values
hashmap_eq ==
  /\ wrapped.eq = <<>> /\ wrapped.args[1].t = "HashMapWrapper"
  /\ wrapped' = [wrapped EXCEPT
                   !.eq = <<HashMapWrapper_eq(wrapped.args[1], wrapped.args[2])>>]
  /\ UNCHANGED <<unpickler, file, op, opPos, ret, entry, loads>>

\* each of the two hashed into a Hasher of its own
hashmap_hash ==
  /\ wrapped.hash = <<>> /\ wrapped.args[1].t = "HashMapWrapper"
  /\ wrapped' = [wrapped EXCEPT
                   !.hash = <<HashMapWrapper_hash(wrapped.args[1]),
                              HashMapWrapper_hash(wrapped.args[2])>>]
  /\ UNCHANGED <<unpickler, file, op, opPos, ret, entry, loads>>

\* a == b on two HashSetWrapper values
hashset_eq ==
  /\ wrapped.eq = <<>> /\ wrapped.args[1].t = "HashSetWrapper"
  /\ wrapped' = [wrapped EXCEPT
                   !.eq = <<HashSetWrapper_eq(wrapped.args[1], wrapped.args[2])>>]
  /\ UNCHANGED <<unpickler, file, op, opPos, ret, entry, loads>>

hashset_hash ==
  /\ wrapped.hash = <<>> /\ wrapped.args[1].t = "HashSetWrapper"
  /\ wrapped' = [wrapped EXCEPT
                   !.hash = <<HashSetWrapper_hash(wrapped.args[1]),
                              HashSetWrapper_hash(wrapped.args[2])>>]
  /\ UNCHANGED <<unpickler, file, op, opPos, ret, entry, loads>>

NextContainer ==
  \/ hashmap_eq
  \/ hashmap_hash
  \/ hashset_eq
  \/ hashset_hash

ContainerSpec == ContainerInit /\ [][NextContainer]_vars

(***************************************************************************)
(* Properties.                                                             *)
(***************************************************************************)
Returned == ret.st \in {"Ok", "Err", "panic"}

\* the stream of this load is the example s: every byte consumed is a byte
\* of s, and the reader has run out exactly where s ends
IsExample(s) == s \in file.scen /\ (file.eof <=> file.pos = Len(s))

\* the step reads the opcode o in the loop of load
Reads(o) == ret.st = "running" /\ file'.pos > file.pos /\ op' = o

\* the ids of the MemoRef nodes of a value, at any depth
RECURSIVE MemoRefs(_)
MemoRefs(v) ==
  CASE v.t = "MemoRef" -> {v.v}
    [] v.t \in {"Tuple", "List"} -> UNION { MemoRefs(v.v[i]) : i \in DOMAIN v.v }
    [] v.t = "Dict" ->
         UNION { MemoRefs(v.v[i][1]) \cup MemoRefs(v.v[i][2]) : i \in DOMAIN v.v }
    [] v.t = "BinPersId" -> MemoRefs(v.v)
    [] OTHER -> {}

MemoRefsOfSeq(s) == UNION { MemoRefs(s[i]) : i \in DOMAIN s }

\* C11: for every n in 0..255 the streams INT "n", BININT1 n, BININT2 n and
\* BININT n, each followed by STOP, all return Ok of the same value, the
\* integer n.
C11_IntEncodingsAgree ==
  \A o \in IntOps, n \in Byte :
    (Returned /\ file.data = IntStream(o, n)) => ret = Ok(VInt(n))

\* the values that a sequence of push units pushes
UnitValues(us) ==
  [i \in 1..Len(us) |-> IF us[i] = <<NONE>> THEN VNone ELSE VInt(us[i][2])]

\* C12: MARK, k pushes v1..vk and TUPLE leave the operand stack as it was
\* before MARK with Tuple(v1, .., vk) appended, items in push order, and the
\* mark stack as it was before MARK; 28 4B 01 4B 02 4B 03 74 2E decodes to the
\* tuple (1, 2, 3).
C12_MarkTuple ==
  /\ (/\ (op = TUPLE /\ file.pos = opPos + 1) \/ Returned
      /\ Len(file.data) >= 2 /\ Last(file.data) = STOP
      /\ file.data[Len(file.data) - 1] = TUPLE) =>
      \A outer \in BOOLEAN, S \in SeqsOfLen(PushUnits, 0, MaxPrefix),
        items \in SeqsOfLen(PushUnits, 0, MaxItems) :
        file.data = TupleStream(outer, S, items) =>
          /\ (op = TUPLE /\ file.pos = opPos + 1) =>
                /\ ret = Running
                /\ stack = Append(UnitValues(S), VTuple(UnitValues(items)))
                /\ metastack = IF outer THEN << <<>> >> ELSE <<>>
          /\ Returned =>
                /\ ret = Ok(VTuple(UnitValues(items)))
                /\ stack = UnitValues(S)
  /\ (Returned /\ file.data = ExMarkTuple)
       => ret = Ok(VTuple(<<VInt(1), VInt(2), VInt(3)>>))

C12_Witness ==
  /\ file.data = ExMarkTuple
  /\ ret = Ok(VTuple(<<VInt(1), VInt(2), VInt(3)>>))
  /\ stack = <<>>
  /\ metastack = <<>>

\* C13: INT with the payload line 00 pushes Bool(false), with the line 01
\* Bool(true), and with any other line the integer its decimal text names:
\* the line 1 pushes the integer 1.
C13_IntBooleans ==
  /\ (Returned /\ file.data = LineStream(INT, <<48, 48>>)) => ret = Ok(VBool(FALSE))
  /\ (Returned /\ file.data = LineStream(INT, <<48, 49>>)) => ret = Ok(VBool(TRUE))
  /\ (Returned /\ file.data = LineStream(INT, <<49>>)) => ret = Ok(VInt(1))
  /\ (Returned /\ file.data = LineStream(INT, <<48>>)) => ret = Ok(VInt(0))

\* the decimal text of an integer n <= 0 without its sign, and of any integer
RECURSIVE MagDec(_)
MagDec(n) ==
  IF n > 0 - 10 THEN <<48 - n>>
  ELSE LET d == (10 - (n % 10)) % 10
       IN Append(MagDec((n + d) \div 10), 48 + d)

SignedDec(n) == IF n < 0 THEN Neg(MagDec(n)) ELSE Dec(n)

\* C14: INT with the signed decimal payload n pushes the integer n, for
\* every n from -2^63 to 2^63 - 1.
C14_IntRange ==
  \A t \in DecimalTexts :
    (Returned /\ file.data = LineStream(INT, t))
      => (ret.st = "Ok" /\ ret.v.t = "Int" /\ SignedDec(ret.v.v) = t)

\* a LONG payload without its one optional trailing L, and without its sign
LongBody(t) == IF t # <<>> /\ Last(t) = 76 THEN Front(t) ELSE t
LongDigits(t) ==
  LET b == LongBody(t) IN IF b # <<>> /\ b[1] \in {43, 45} THEN Tail(b) ELSE b

\* whether t is a signed decimal integer d, or dL
IsLongForm(t) ==
  LongDigits(t) # <<>> /\ \A i \in DOMAIN LongDigits(t) : IsDigit(LongDigits(t)[i])

\* C15: LONG with the payload d or dL, d a signed decimal integer of any
\* magnitude, pushes exactly d; a payload of another form is an error.
C15_LongAnyMagnitude ==
  \A t \in LongTexts :
    (Returned /\ file.data = LineStream(LONG, t))
      => IF IsLongForm(t)
           THEN ret = Ok(VI128(BigInt(LongBody(t)[1] = 45, LongDigits(t))))
           ELSE ret.st = "Err"

\* the byte at offset i (from 0) of the stream being decoded
ByteAt(i) == file.data[i + 1]

\* C16: BININT2 reads exactly 2 bytes b0 b1, pushes the integer b0 + 256*b1
\* and returns successfully: the decoder goes on with the next opcode.
C16_BinInt2 ==
  (file.fixed /\ op = BININT2 /\ file.pos = opPos + 3)
    => /\ ret = Running
       /\ stack # <<>>
       /\ Last(stack) = VInt(ByteAt(opPos + 1) + 256 * ByteAt(opPos + 2))

\* C17: BININT reads exactly 4 bytes and pushes their little-endian signed
\* 32-bit value (the high byte counts as b3 - 256 when b3 >= 128); BININT1
\* reads exactly 1 byte b and pushes b, in 0..255 and never negative.
C17_BinInt ==
  /\ (file.fixed /\ op = BININT /\ file.pos = opPos + 5) =>
        /\ ret = Running
        /\ stack # <<>>
        /\ Last(stack) =
             VInt(ByteAt(opPos + 1) + 256 * ByteAt(opPos + 2) + 65536 * ByteAt(opPos + 3)
                  + 16777216 * (IF ByteAt(opPos + 4) >= 128
                                  THEN ByteAt(opPos + 4) - 256
                                  ELSE ByteAt(opPos + 4)))
  /\ (file.fixed /\ op = BININT /\ ret = Running) => file.pos = opPos + 5
  /\ (file.fixed /\ op = BININT1 /\ file.pos = opPos + 2) =>
        /\ ret = Running
        /\ stack # <<>>
        /\ Last(stack) = VInt(ByteAt(opPos + 1))
        /\ Last(stack).v \in Byte
  /\ (file.fixed /\ op = BININT1 /\ ret = Running) => file.pos = opPos + 2

C17_Witness ==
  /\ file.data = <<BININT, 255, 255, 255, 255, STOP>>
  /\ op = BININT
  /\ ret = Running
  /\ stack = <<VInt(0 - 1)>>

\* whether the line t is at least 2 bytes between two equal quotes, ' or "
IsQuoted(t) == Len(t) >= 2 /\ t[1] = Last(t) /\ t[1] \in {39, 34}

\* C18: STRING accepts a payload line of at least 2 bytes whose first and
\* last bytes are the same quote, ' or ", and pushes what is strictly between
\* them (nothing, for ''); every other payload is an error.
C18_StringQuotes ==
  \A t \in StringTexts :
    (Returned /\ file.data = LineStream(STRING_, t))
      => IF IsQuoted(t)
           THEN ret = Ok(VString(SubSeq(t, 2, Len(t) - 1)))
           ELSE ret.st = "Err"

\* C19: BINSTRING whose 4-byte signed length prefix is negative makes load
\* return the error NegativeLength, and no payload is read.
C19_BinStringNegativeLength ==
  (file.fixed /\ op = BINSTRING /\ file.pos >= opPos + 5 /\ ByteAt(opPos + 4) >= 128)
    => (ret = Err(Syntax("NegativeLength", 0)) /\ file.pos = opPos + 5)

\* C20: PERSID and UNICODE push the content of their line with the LF that
\* ends it removed: the payload pushed never ends with that LF.
C20_LinePayloadWithoutLF ==
  \A o \in TextOps, t \in Texts :
    (file.data = LineStream(o, t) /\ op = o)
      => /\ ret = Running
         /\ stack # <<>>
         /\ Last(stack).v = t

\* whether v is a Dict with two entries of the same key, or with a key that
\* is a List, a Dict or a Set
HasDupKey(v) ==
  v.t = "Dict" /\ \E i, j \in DOMAIN v.v : i < j /\ v.v[i][1] = v.v[j][1]

HasUnhashableKey(v) ==
  v.t = "Dict" /\ \E i \in DOMAIN v.v : v.v[i][1].t \in {"List", "Dict", "Set"}

\* C21: every Dict built by DICT or extended by SETITEM has pairwise distinct
\* keys: a key given twice has one entry.
C21_DictKeysDistinct ==
  /\ \A i \in DOMAIN stack : ~HasDupKey(stack[i])
  /\ ret.st = "Ok" => ~HasDupKey(ret.v)

\* C22: no state holds a Dict with a key that is a List, a Dict or a Set:
\* DICT or SETITEM given such a key makes load return an error.
C22_DictKeysHashable ==
  /\ \A i \in DOMAIN stack : ~HasUnhashableKey(stack[i])
  /\ ret.st = "Ok" => ~HasUnhashableKey(ret.v)

StackUnderflow == Err(Syntax("StackUnderflow", 0))

\* C23: TUPLE, DICT, POP_MARK, and POP on an empty operand stack, run while
\* the mark stack is empty, make load return StackUnderflow, not a panic.
C23_NoMarkFrame ==
  \A o \in {TUPLE, DICT, POP_MARK, POP} :
    (file.data = <<o>> /\ op = o) => ret = StackUnderflow

\* C24: PUT on an empty operand stack, and SETITEM with fewer than three
\* values on it, make load return StackUnderflow, not a panic.
C24_PutSetItemUnderflow ==
  /\ (file.data = <<PUT, 48, LF, STOP>> /\ op = PUT) => ret = StackUnderflow
  /\ (file.data \in {<<SETITEM>>, <<NONE, SETITEM>>, <<NONE, NONE, SETITEM>>}
        /\ op = SETITEM) => ret = StackUnderflow

\* C25: DUP and BINPERSID on an empty operand stack, and APPEND with fewer
\* than two values, make load return StackUnderflow; otherwise DUP adds one
\* value, equal to the one under it, above the stack as it was, and BINPERSID
\* replaces the top by the persistent id that wraps it.
C25_DupBinPersId ==
  [][ /\ Reads(DUP) =>
           IF stack = <<>>
             THEN ret' = StackUnderflow
             ELSE /\ ret' = Running
                  /\ Len(stack') = Len(stack) + 1
                  /\ Front(stack') = stack
                  /\ stack'[Len(stack')] = stack'[Len(stack') - 1]
      /\ Reads(BINPERSID) =>
           IF stack = <<>>
             THEN ret' = StackUnderflow
             ELSE /\ ret' = Running
                  /\ Len(stack') = Len(stack)
                  /\ Front(stack') = Front(stack)
                  /\ Last(stack') = VBinPersId(Last(stack))
      /\ (Reads(APPEND) /\ Len(stack) < 2) => ret' = StackUnderflow ]_vars

\* DUP has run on a stack that held a persistent id over a value
C25_Witness ==
  /\ op = DUP /\ ret = Running /\ Len(stack) = 3
  /\ stack[2].t = "BinPersId" /\ stack[3] = stack[2]

\* C26: STOP read while the operand stack is empty makes load return
\* StackUnderflow: a STOP that does not return Ok returns that error.
C26_StopOnEmptyStack ==
  (entry = "load" /\ op = STOP /\ ret.st # "Ok") => ret = StackUnderflow

\* C27: APPEND with no List under the item, and SETITEM with no Dict under
\* the key and the value, make load return InvalidStackTop, not a panic.
C27_WrongVariant ==
  ((file.data = <<NONE, NONE, APPEND>> /\ op = APPEND)
     \/ (file.data = <<NONE, NONE, NONE, SETITEM>> /\ op = SETITEM))
    => (ret.st = "Err" /\ ret.v.t = "Syntax" /\ ret.v.v.t = "InvalidStackTop")

\* C28: every error load returns for a fault of the stream carries the
\* position of the reader where the fault was detected.
C28_ErrorsCarryPosition ==
  (entry = "load" /\ ret.st = "Err" /\ ret.v.t # "Io")
    => (ret.v.t = "Eval" /\ ret.v.v.pos = file.pos)

\* the operand stack, the mark stack and the memo that the opcodes of a setup
\* build from a fresh Unpickler (a PUT on an empty stack does not return)
RECURSIVE Before(_)
Before(pre) ==
  IF pre = <<>> THEN [stack |-> <<>>, metastack |-> <<>>, memo |-> EmptyMemo]
  ELSE LET b == Before(Front(pre))
           u == Last(pre) IN
       IF u = <<MARK>>
         THEN [b EXCEPT !.stack = <<>>, !.metastack = Append(b.metastack, b.stack)]
       ELSE IF u[1] = PUT
         THEN IF b.stack = <<>> THEN b
              ELSE [b EXCEPT !.memo = MemoInsert(b.memo, 0, Last(b.stack))]
       ELSE [b EXCEPT !.stack = Append(b.stack, UnitValues(<<u>>)[1])]

\* POP_MARK, the last opcode but one of the stream, has just run
AfterPopMark(pre, items) ==
  /\ file.data = MarkPopStream(pre, items)
  /\ op = POP_MARK /\ file.pos = Len(file.data) - 1 /\ opPos = file.pos - 1

\* C29: two F64Wrapper values are equal exactly when their 64-bit patterns
\* are the same (a NaN equals a NaN of the same bits, +0.0 and -0.0 differ),
\* and equal wrappers feed their hashers the same.
C29_F64WrapperBits ==
  /\ wrapped.eq # <<>> =>
        (wrapped.eq[1] <=> to_bits(wrapped.args[1].v) = to_bits(wrapped.args[2].v))
  /\ (wrapped.eq = <<TRUE>> /\ wrapped.hash # <<>>) =>
        wrapped.hash[1] = wrapped.hash[2]

\* C30: for every operand stack S and mark stack M, MARK, any number of
\* pushes and POP_MARK leave the operand stack S, the mark stack M and the
\* memo as they were before MARK.
C30_MarkPopMark ==
  (/\ op = POP_MARK /\ file.pos = opPos + 1
   /\ file.pos = Len(file.data) - 1 /\ Last(file.data) = STOP) =>
  \A pre \in SeqsOfLen(SetupUnits, 0, MaxPrefix),
     items \in SeqsOfLen(PushUnits, 0, MaxItems) :
    AfterPopMark(pre, items) =>
      /\ ret = Running
      /\ stack = Before(pre).stack
      /\ metastack = Before(pre).metastack
      /\ memo = Before(pre).memo

\* POP_MARK has dropped MaxItems pushes made over a stack and a mark stack
\* that both hold something
C30_Witness ==
  /\ \E pre \in SeqsOfLen(SetupUnits, 0, MaxPrefix),
        items \in SeqsOfLen(PushUnits, MaxItems, MaxItems) :
        AfterPopMark(pre, items)
  /\ ret = Running
  /\ stack # <<>> /\ metastack # <<>>

\* the values that the units of a dict stream push
DictUnitValues(us) ==
  [i \in 1..Len(us) |->
     IF us[i] = <<NONE>> THEN VNone
     ELSE IF us[i] = <<MARK, DICT>> THEN VDict(<<>>)
     ELSE VInt(us[i][2])]

C40_LoadStops ==
  /\ [][ret.st = "running" => (file'.pos > file.pos \/ ret'.st # "running")]_vars
  /\ [](ret.st = "running" => file.pos <= Len(file.data))
  /\ [][(ret'.st = "Ok" /\ ret.st # "Ok") => (Reads(STOP) /\ op' = STOP)]_vars
  /\ (ret.st = "running") ~> Returned

\* a load that has read MaxOps opcodes of its stream, all of it, and has
\* returned for want of a byte
C40_Witness ==
  /\ file.data \in OpcodeStreams /\ Len(file.data) = MaxOps
  /\ file.pos = MaxOps
  /\ ret = Err(Io("UnexpectedEof"))

\* No handler that builds a List is implemented (EMPTY_LIST, LIST and APPENDS
\* are todo!): the operand stack never holds one, so the List arm of
\* load_append is never entered.
NoListOnStack == \A i \in DOMAIN stack : stack[i].t # "List"

\* C31: POP on a non-empty operand stack removes its top and leaves the mark
\* stack alone; POP on an empty operand stack with a mark frame removes the
\* frame and makes its saved stack the operand stack.
C31_Pop ==
  [][Reads(POP) =>
       IF stack # <<>>
         THEN /\ ret' = Running
              /\ stack' = Front(stack)
              /\ metastack' = metastack
         ELSE metastack # <<>> =>
              /\ ret' = Running
              /\ stack' = Last(metastack)
              /\ metastack' = Front(metastack)]_vars

\* NONE, MARK, POP: the POP after MARK has put back the stack and the mark
\* stack that MARK found
C31_Witness ==
  /\ file.fixed /\ Len(file.data) >= 3
  /\ SubSeq(file.data, 1, 3) = <<NONE, MARK, POP>>
  /\ op = POP /\ file.pos = 3 /\ ret = Running
  /\ stack = <<VNone>> /\ metastack = <<>>

\* C34: PROTO reads exactly one byte p; with p in 0..5 the handler succeeds,
\* records p as the protocol and leaves the operand stack, the mark stack and
\* the memo alone; with p > 5 load returns an error and the protocol recorded
\* stays as it was.
C34_Proto ==
  [][(Reads(PROTO) /\ file.pos + 2 <= Len(file.data)) =>
       LET p == file.data[file.pos + 2] IN
       /\ file'.pos = file.pos + 2
       /\ IF p <= 5
            THEN /\ ret' = Running
                 /\ proto' = p
                 /\ UNCHANGED <<stack, metastack, memo>>
            ELSE /\ ret'.st = "Err"
                 /\ proto' = proto]_vars

\* PROTO 6 read after PROTO 2: an error, and the protocol recorded is 2
C34_Witness ==
  /\ file.data = ProtoSetup \o <<PROTO, 6, STOP>>
  /\ op = PROTO /\ opPos = Len(ProtoSetup)
  /\ ret.st = "Err"
  /\ proto = 2

\* C35: errors are terminal: once a handler has returned an error, load has
\* returned it; no later opcode runs and no further byte of the reader is
\* read. The one step that follows is a new call, which leaves the Unpickler
\* as the failed load left it.
C35_ErrorsTerminal ==
  [][ret.st = "Err" =>
       /\ loads' = loads + 1
       /\ op' = op \/ op' = NoOp
       /\ UNCHANGED unpickler]_vars

\* DUP on an empty stack has returned StackUnderflow and the reader has
\* bytes left
C35_Witness ==
  /\ entry = "load" /\ op = DUP
  /\ ret = StackUnderflow
  /\ ~file.eof

\* the entries of a wrapped map or set, whatever their order
Entries(a) == {a.v[i] : i \in DOMAIN a.v}

\* C36: two HashMapWrapper (or two HashSetWrapper) values are equal exactly
\* when they hold the same entries, whatever the order of iteration, and two
\* that are equal feed their hashers the same: they have the same hash.
C36_ContainerHash ==
  /\ wrapped.eq # <<>> =>
        (wrapped.eq[1] <=> Entries(wrapped.args[1]) = Entries(wrapped.args[2]))
  /\ (wrapped.eq = <<TRUE>> /\ wrapped.hash # <<>>) =>
        wrapped.hash[1] = wrapped.hash[2]

\* C37: DICT over an odd number of items since MARK returns an error or
\* ignores the item without a pair: it does not index past the items and
\* panic.
C37_DictOddItems ==
  (entry = "load" /\ op = DICT /\ metastack = <<>> /\ file.pos = opPos + 1)
    => ret # Panic("index", "index out of bounds")

\* C38: among the opcodes that succeed, MARK adds one mark frame, TUPLE, DICT,
\* POP_MARK and POP on an empty operand stack remove one, and no other step
\* changes the mark stack: its depth is the MARKs less the consuming steps.
C38_MarkDepth ==
  [][ret' = Running =>
       IF Reads(MARK) THEN Len(metastack') = Len(metastack) + 1
       ELSE IF Reads(TUPLE) \/ Reads(DICT) \/ Reads(POP_MARK)
                 \/ (Reads(POP) /\ stack = <<>>)
         THEN Len(metastack') = Len(metastack) - 1
       ELSE metastack' = metastack]_vars

\* two MARKs and one TUPLE have run: one frame is left
C38_Witness ==
  /\ file.fixed /\ Len(file.data) >= 4
  /\ SubSeq(file.data, 1, 4) = <<MARK, NONE, MARK, TUPLE>>
  /\ op = TUPLE /\ file.pos = 4 /\ ret = Running
  /\ Len(metastack) = 1

\* C1: when STOP is read while the operand stack is not empty, load returns
\* Ok(v) with v the top of the stack just before, and v is off the stack; the
\* stream 80 02 4B 2A 2E returns the integer 42.
C1_StopReturnsTop ==
  /\ [][(Reads(STOP) /\ stack # <<>>) =>
          (ret' = Ok(Last(stack)) /\ stack' = Front(stack))]_vars
  /\ [][ret'.st = "Ok" => (ret.st = "Ok" \/ (Reads(STOP) /\ stack # <<>>))]_vars
  /\ []((Returned /\ entry = "load" /\ IsExample(ExInt42)) => ret = Ok(VInt(42)))

C1_Witness ==
  /\ IsExample(ExInt42)
  /\ ret = Ok(VInt(42))
  /\ stack = <<>>

\* C2: decoding the stream of a list that appends itself,
\* 80 02 5D 71 00 28 68 00 65 2E, makes load return the error Recursive:
\* neither Ok, nor another error, nor a panic.
C2_RecursiveIsAnError ==
  (Returned /\ entry = "load" /\ IsExample(ExRecursive))
    => ret = Err(Syntax("Recursive", 0))

C4_OkOnlyAtEnd ==
  (entry = "load" /\ ret.st = "Ok") => file.eof

\* C5: a byte b that is no opcode, read where an opcode is expected, makes
\* load return Unsupported(b), and never a panic.
C5_UnknownOpcodeIsAnError ==
  (entry = "load" /\ Returned /\ op \in UnknownOps)
    => ret = Err(Syntax("Unsupported", op))

\* the opcodes for which the code reads a payload of fixed length, and that
\* length: the size of the buffer handed to read_exact
FixedPayload ==
  [o \in {PROTO, BININT1, BININT2, BININT} |->
     CASE o \in {PROTO, BININT1} -> 1
       [] o = BININT2 -> 2
       [] OTHER -> 4]

\* C6: a stream made of an opcode with a fixed payload of L bytes and fewer
\* than L bytes after it makes load return EOFWhileParsing, never a panic.
C6_ShortPayloadIsEOF ==
  (entry = "load" /\ Returned /\ op \in DOMAIN FixedPayload /\ opPos = 0
     /\ file.eof /\ file.pos < 1 + FixedPayload[op])
    => ret = Err(Syntax("EOFWhileParsing", 0))

\* C7: after load returns, the Unpickler keeps nothing of that run, so a
\* later load behaves like a load on a fresh Unpickler: on the stream that
\* begins with STOP, that is the error a pop from an empty stack gives.
C7_LoadStartsFresh ==
  (entry = "load" /\ Returned /\ op = STOP /\ opPos = 0)
    => ret = Err(Syntax("EOFWhileParsing", 0))

\* C8: after a memo-save opcode (PUT, BINPUT, LONG_BINPUT, MEMOIZE) has run
\* with a value on top of the operand stack, that top is MemoRef(i) with
\* memo[i] stored, the depth unchanged.
C8_MemoSaveLeavesMemoRef ==
  (entry = "load" /\ op \in {PUT, BINPUT, LONG_BINPUT, MEMOIZE} /\ stack # <<>>)
    => /\ ret.st # "panic"
       /\ ret.st = "running" =>
            /\ Last(stack).t = "MemoRef"
            /\ Last(stack).v \in DOMAIN memo
            /\ MemoRefs(memo[Last(stack).v]) = {}

\* C9: a memo-load opcode (GET, BINGET, LONG_BINGET) never aborts the
\* decoder: with its id stored it goes on, and with its id absent (as every
\* id is while the memo is empty) load returns MissingMemo(id).
C9_MemoLoad ==
  (entry = "load" /\ op \in {GET, BINGET, LONG_BINGET})
    => /\ ret.st # "panic"
       /\ (memo = EmptyMemo =>
             (ret.st = "Err" /\ ret.v.t = "Syntax" /\ ret.v.v.t = "MissingMemo"))

\* C10: with the default options, load_from_slice returns an Err value, and
\* so does load when the stream refers to a global: neither Ok nor a panic.
C10_UnresolvedGlobalIsErr ==
  /\ (entry = "load_from_slice" /\ Returned) => ret.st = "Err"
  /\ (entry = "load" /\ Returned /\ op = GLOBAL) => ret.st = "Err"

====
